---- MODULE Spec2Model ----
(***************************************************************************)
(* Model of openwrt-network-monitor: main (src/main.rs) calls              *)
(* net_util::get_ip_neighbors (src/net_util/mod.rs), which runs            *)
(* `ip neigh`, splits its standard output into trimmed non-empty lines and *)
(* parses each with ArpTable::parse_from_string.                           *)
(*                                                                         *)
(* A Rust String / &str is modelled as a sequence of one-character         *)
(* strings; a Vec<u8> that is only handled as bytes (stderr) is a          *)
(* sequence of numbers 0..255.                                             *)
(***************************************************************************)
EXTENDS Integers, Sequences, FiniteSets, TLC

(***************************************************************************)
(* Characters and the std string operations the source calls.             *)
(***************************************************************************)
LowerChars == <<"a","b","c","d","e","f","g","h","i","j","k","l","m",
                "n","o","p","q","r","s","t","u","v","w","x","y","z">>
UpperChars == <<"A","B","C","D","E","F","G","H","I","J","K","L","M",
                "N","O","P","Q","R","S","T","U","V","W","X","Y","Z">>
DigitChars == <<"0","1","2","3","4","5","6","7","8","9">>

\* char::is_whitespace for the characters that occur in the inputs.
WhiteSpace == {" ", "\t", "\r", "\n"}

\* A byte that is not part of any valid UTF-8 sequence (0xFF).
InvalidByte == "<0xFF>"

IndexOf(c, cs) == CHOOSE k \in 1..Len(cs) : cs[k] = c

InSeq(c, cs) == \E k \in 1..Len(cs) : cs[k] = c

to_uppercase(s) ==
  [i \in 1..Len(s) |->
     IF InSeq(s[i], LowerChars) THEN UpperChars[IndexOf(s[i], LowerChars)] ELSE s[i]]

to_lowercase(s) ==
  [i \in 1..Len(s) |->
     IF InSeq(s[i], UpperChars) THEN LowerChars[IndexOf(s[i], UpperChars)] ELSE s[i]]

\* Mutant: the bytes are reported as captured, without lowercasing.
to_ascii_lowercase_noop(bytes) == bytes

\* <[u8]>::to_ascii_lowercase: b'A'..=b'Z' are moved to b'a'..=b'z'.
to_ascii_lowercase(bytes) ==
  [i \in 1..Len(bytes) |->
     IF bytes[i] \in 65..90 THEN bytes[i] + 32 ELSE bytes[i]]

\* str::split(sep): the pieces between occurrences of sep, empty pieces kept.
RECURSIVE split(_, _)
split(s, sep) ==
  IF \A i \in 1..Len(s) : s[i] # sep
  THEN <<s>>
  ELSE LET k == CHOOSE i \in 1..Len(s) :
                   s[i] = sep /\ \A j \in 1..(i - 1) : s[j] # sep
       IN  <<SubSeq(s, 1, k - 1)>> \o split(SubSeq(s, k + 1, Len(s)), sep)

\* str::trim: leading and trailing whitespace removed.
trim(s) ==
  IF \A i \in 1..Len(s) : s[i] \in WhiteSpace
  THEN <<>>
  ELSE LET a == CHOOSE i \in 1..Len(s) :
                   s[i] \notin WhiteSpace /\ \A j \in 1..(i - 1) : s[j] \in WhiteSpace
           b == CHOOSE i \in 1..Len(s) :
                   s[i] \notin WhiteSpace /\ \A j \in (i + 1)..Len(s) : s[j] \in WhiteSpace
       IN  SubSeq(s, a, b)

\* String::from_utf8: Err when the bytes are not valid UTF-8.
from_utf8(bytes) ==
  IF \E i \in 1..Len(bytes) : bytes[i] = InvalidByte
  THEN [ok |-> FALSE]
  ELSE [ok |-> TRUE, val |-> bytes]

(***************************************************************************)
(* IpAddr::from_str (std::net), called at mod.rs:126.                      *)
(***************************************************************************)
HexChars == <<"0","1","2","3","4","5","6","7","8","9","a","b","c","d","e","f">>

HexVal(c) == IndexOf(to_lowercase(<<c>>)[1], HexChars) - 1

IsHex(c) == InSeq(to_lowercase(<<c>>)[1], HexChars)

RECURSIVE NumVal(_, _)
NumVal(s, radix) ==
  IF Len(s) = 0 THEN 0
  ELSE NumVal(SubSeq(s, 1, Len(s) - 1), radix) * radix + HexVal(s[Len(s)])

\* One decimal octet: 1..3 digits, no leading zero, at most 255.
IsOctet(s) ==
  /\ Len(s) \in 1..3
  /\ \A i \in 1..Len(s) : InSeq(s[i], DigitChars)
  /\ (Len(s) > 1 => s[1] # "0")
  /\ NumVal(s, 10) <= 255

IsIpv4(s) ==
  LET parts == split(s, ".")
  IN  Len(parts) = 4 /\ \A i \in 1..4 : IsOctet(parts[i])

Ipv4Octets(s) ==
  LET parts == split(s, ".") IN [i \in 1..4 |-> NumVal(parts[i], 10)]

\* One 16-bit group: 1..4 hexadecimal digits.
IsGroup(s) == Len(s) \in 1..4 /\ \A i \in 1..Len(s) : IsHex(s[i])

\* The groups of a colon-separated run; a trailing dotted quad counts as two.
GroupsOk(s, v4last) ==
  \/ Len(s) = 0
  \/ LET parts == split(s, ":")
     IN  \A i \in 1..Len(parts) :
           \/ IsGroup(parts[i])
           \/ v4last /\ i = Len(parts) /\ IsIpv4(parts[i])

RECURSIVE GroupVals(_)
GroupVals(parts) ==
  IF Len(parts) = 0 THEN <<>>
  ELSE IF IsGroup(parts[1])
  THEN <<NumVal(parts[1], 16)>> \o GroupVals(Tail(parts))
  ELSE LET o == Ipv4Octets(parts[1])
       IN  <<o[1] * 256 + o[2], o[3] * 256 + o[4]>> \o GroupVals(Tail(parts))

Groups(s) == IF Len(s) = 0 THEN <<>> ELSE GroupVals(split(s, ":"))

\* Positions k where s[k..k+1] is "::".
Gaps(s) == {k \in 1..(Len(s) - 1) : s[k] = ":" /\ s[k + 1] = ":"}

Zeros(n) == [i \in 1..n |-> 0]

IsIpv6(s) ==
  IF Gaps(s) = {}
  THEN GroupsOk(s, TRUE) /\ Len(s) > 0 /\ Len(Groups(s)) = 8
  ELSE \E k \in Gaps(s) :
         LET head == SubSeq(s, 1, k - 1)
             tail == SubSeq(s, k + 2, Len(s))
         IN  /\ GroupsOk(head, FALSE)
             /\ GroupsOk(tail, TRUE)
             /\ Len(Groups(head)) + Len(Groups(tail)) <= 7

Ipv6Groups(s) ==
  IF Gaps(s) = {}
  THEN Groups(s)
  ELSE LET k == CHOOSE k \in Gaps(s) :
                  /\ GroupsOk(SubSeq(s, 1, k - 1), FALSE)
                  /\ GroupsOk(SubSeq(s, k + 2, Len(s)), TRUE)
           head == Groups(SubSeq(s, 1, k - 1))
           tail == Groups(SubSeq(s, k + 2, Len(s)))
       IN  head \o Zeros(8 - Len(head) - Len(tail)) \o tail

IpAddr_from_str(s) ==
  IF IsIpv4(s) THEN [ok |-> TRUE, val |-> [v |-> "V4", addr |-> Ipv4Octets(s)]]
  ELSE IF IsIpv6(s) THEN [ok |-> TRUE, val |-> [v |-> "V6", addr |-> Ipv6Groups(s)]]
  ELSE [ok |-> FALSE, err |-> "AddrParseError(Ip)"]

(***************************************************************************)
(* NudState and parse_nud_from_str (mod.rs:48-75).                         *)
(***************************************************************************)
NudState == {"UNKNOWN", "PERMANENT", "NOARP", "REACHABLE", "STALE", "NONE",
             "INCOMPLETE", "DELAY", "PROBE", "FAILED"}

K_PERMANENT  == <<"P","E","R","M","A","N","E","N","T">>
K_NOARP      == <<"N","O","A","R","P">>
K_REACHABLE  == <<"R","E","A","C","H","A","B","L","E">>
K_STALE      == <<"S","T","A","L","E">>
K_NONE       == <<"N","O","N","E">>
K_INCOMPLETE == <<"I","N","C","O","M","P","L","E","T","E">>
K_DELAY      == <<"D","E","L","A","Y">>
K_PROBE      == <<"P","R","O","B","E">>
K_FAILED     == <<"F","A","I","L","E","D">>

\* Mutant: the match is made on the token as written, without to_uppercase.
parse_nud_from_str_case_sensitive(nud_state_str) ==
  CASE nud_state_str = K_PERMANENT  -> "PERMANENT"
    [] nud_state_str = K_NOARP      -> "NOARP"
    [] nud_state_str = K_REACHABLE  -> "REACHABLE"
    [] nud_state_str = K_STALE      -> "STALE"
    [] nud_state_str = K_NONE       -> "NONE"
    [] nud_state_str = K_INCOMPLETE -> "INCOMPLETE"
    [] nud_state_str = K_DELAY      -> "DELAY"
    [] nud_state_str = K_PROBE      -> "PROBE"
    [] nud_state_str = K_FAILED     -> "FAILED"
    [] OTHER                        -> "UNKNOWN"

parse_nud_from_str(nud_state_str) ==
  LET u == to_uppercase(nud_state_str)
  IN  CASE u = K_PERMANENT  -> "PERMANENT"
        [] u = K_NOARP      -> "NOARP"
        [] u = K_REACHABLE  -> "REACHABLE"
        [] u = K_STALE      -> "STALE"
        [] u = K_NONE       -> "NONE"
        [] u = K_INCOMPLETE -> "INCOMPLETE"
        [] u = K_DELAY      -> "DELAY"
        [] u = K_PROBE      -> "PROBE"
        [] u = K_FAILED     -> "FAILED"
        [] OTHER            -> "UNKNOWN"

(***************************************************************************)
(* ArpTable::parse_from_string (mod.rs:114-163).  A Result is a record     *)
(* with ok; an anyhow Error is its message, kept as the sequence of the    *)
(* parts format! puts together.                                            *)
(***************************************************************************)
S_dev    == <<"d","e","v">>
S_lladdr == <<"l","l","a","d","d","r">>

MSG_UNEXPECTED == "Unexpected string -> "
MSG_ADDRESS    == "Failed to parse "
MSG_DEVICE     == "No device name found, expected 'dev' but got "
MSG_LLADDR     == "No link layer address found, expected 'lladdr' but got "
MSG_COMMAND    == "Command failed "
MSG_EXECUTE    == "Failed to execute 'ip' command: "

Ok(v)  == [ok |-> TRUE, val |-> v]
Err(m) == [ok |-> FALSE, err |-> m]

MinTokens == 6

\* Mutant: the length check lets a line of MinTokens - 1 tokens through
\* (an off-by-one in the comparison).
too_short_off_by_one(sliced_str) == Len(sliced_str) < MinTokens - 1

too_short(sliced_str) == Len(sliced_str) < MinTokens

dev_str(sliced_str) == to_lowercase(sliced_str[2])

dev_name(sliced_str) == sliced_str[3]

link_layer_addr_str(sliced_str) == to_lowercase(sliced_str[4])

\* Mutant: the MAC address is kept as written, without to_lowercase.
mac_address_verbatim(sliced_str) == sliced_str[5]

mac_address(sliced_str) == to_lowercase(sliced_str[5])

nud_state(sliced_str) == parse_nud_from_str(sliced_str[Len(sliced_str)])

\* Mutant: the `dev` keyword is checked before the address is parsed.
parse_from_string_dev_first(s) ==
  LET sliced_str == split(s, " ")
      ip_addr    == IpAddr_from_str(sliced_str[1])
  IN  IF too_short(sliced_str)
      THEN Err(<<MSG_UNEXPECTED, s>>)
      ELSE IF dev_str(sliced_str) # S_dev
      THEN Err(<<MSG_DEVICE, dev_str(sliced_str)>>)
      ELSE IF ~ip_addr.ok
      THEN Err(<<MSG_ADDRESS, sliced_str[1], ip_addr.err>>)
      ELSE IF link_layer_addr_str(sliced_str) # S_lladdr
      THEN Err(<<MSG_LLADDR, link_layer_addr_str(sliced_str)>>)
      ELSE Ok([ip        |-> ip_addr.val,
               iface     |-> dev_name(sliced_str),
               mac_addr  |-> mac_address(sliced_str),
               nud_state |-> nud_state(sliced_str)])

\* Mutant: a line without `lladdr` is accepted, with an empty MAC address.
parse_from_string_lladdr_optional(s) ==
  LET sliced_str == split(s, " ")
      ip_addr    == IpAddr_from_str(sliced_str[1])
  IN  IF too_short(sliced_str)
      THEN Err(<<MSG_UNEXPECTED, s>>)
      ELSE IF ~ip_addr.ok
      THEN Err(<<MSG_ADDRESS, sliced_str[1], ip_addr.err>>)
      ELSE IF dev_str(sliced_str) # S_dev
      THEN Err(<<MSG_DEVICE, dev_str(sliced_str)>>)
      ELSE Ok([ip        |-> ip_addr.val,
               iface     |-> dev_name(sliced_str),
               mac_addr  |-> IF link_layer_addr_str(sliced_str) # S_lladdr
                             THEN <<>> ELSE mac_address(sliced_str),
               nud_state |-> nud_state(sliced_str)])

parse_from_string(s) ==
  LET sliced_str == split(s, " ")
      ip_addr    == IpAddr_from_str(sliced_str[1])
  IN  IF too_short(sliced_str)
      THEN Err(<<MSG_UNEXPECTED, s>>)
      ELSE IF ~ip_addr.ok
      THEN Err(<<MSG_ADDRESS, sliced_str[1], ip_addr.err>>)
      ELSE IF dev_str(sliced_str) # S_dev
      THEN Err(<<MSG_DEVICE, dev_str(sliced_str)>>)
      ELSE IF link_layer_addr_str(sliced_str) # S_lladdr
      THEN Err(<<MSG_LLADDR, link_layer_addr_str(sliced_str)>>)
      ELSE Ok([ip        |-> ip_addr.val,
               iface     |-> dev_name(sliced_str),
               mac_addr  |-> mac_address(sliced_str),
               nud_state |-> nud_state(sliced_str)])

\* The debug! lines parse_from_string writes before it returns.
parse_debug(s) ==
  LET sliced_str == split(s, " ")
      r          == parse_from_string(s)
  IN  <<"Sliced string">>
      \o (IF ~too_short(sliced_str) /\ IpAddr_from_str(sliced_str[1]).ok
          THEN <<"Parsed ip address">> ELSE <<>>)
      \o (IF r.ok \/ (~r.ok /\ r.err[1] = MSG_LLADDR)
          THEN <<"Extracted device name">> ELSE <<>>)
      \o (IF r.ok
          THEN <<"Extracted device mac address", "Parsed NUD State">> ELSE <<>>)

(***************************************************************************)
(* Program state.                                                          *)
(***************************************************************************)
VARIABLES
  pc,              \* position in main / get_ip_neighbors / the test harness
  rust_log,        \* the RUST_LOG environment variable ("" when unset)
  filter,          \* the level filter of the global logger
  ip_neigh_cmd,    \* mod.rs:168, the Result of Command::output()
  stdout,          \* mod.rs:179, the decoded standard output
  stdout_filtered, \* mod.rs:182, the trimmed non-empty lines
  next_line,       \* position of the iterator of mod.rs:189-192
  vec,             \* the records collect() has gathered so far
  parsed,          \* the lines handed to parse_from_string, in call order
  result,          \* the value get_ip_neighbors returns
  ip_neigh_vec,    \* main.rs:9
  log,             \* the lines written by the logger
  exit,            \* how the process ended: "running", "success", "panic"
  s,               \* argument of a direct call of parse_from_string
  ret              \* what that call returned

vars == <<pc, rust_log, filter, ip_neigh_cmd, stdout, stdout_filtered, next_line,
          vec, parsed, result, ip_neigh_vec, log, exit, s, ret>>

Unset == [unset |-> TRUE]

(***************************************************************************)
(* Inputs: tokens, lines and command outcomes.                             *)
(***************************************************************************)
S_ip4     == <<"1","9","2",".","1","6","8",".","0",".","2">>
S_ip4b    == <<"1","9","2",".","1","6","8",".","0",".","3","3">>
S_ip6     == <<"f","e","8","0",":",":","1","8","6","6",":","4","c","c","f",":",
               "1","4","0","e",":","9","5","b","0">>
S_ip_bad  == <<"1","9","2",".","1","6","8",".","0",".","2","5","6">>
S_Dev     == <<"D","e","v">>
S_dew     == <<"d","e","w">>
S_br_lan  == <<"b","r","-","l","a","n">>
S_Eth1    == <<"E","t","h","1">>
S_LlAddr  == <<"L","l","A","d","d","r">>
S_used    == <<"u","s","e","d">>
S_mac     == <<"1","a",":","4","2",":","8","5",":","a","2",":","2","2",":","f","b">>
S_MAC     == <<"1","A",":","4","2",":","8","5",":","A","2",":","2","2",":","F","b">>
S_mac2    == <<"d","c",":","a","6",":","3","2",":","5","7",":","4","6",":","d","6">>
S_ref     == <<"r","e","f">>
S_0_0_0   == <<"0","/","0","/","0">>
S_probes  == <<"p","r","o","b","e","s">>
S_1       == <<"1">>
S_4       == <<"4">>
S_6       == <<"6">>
S_garbage == <<"g","a","r","b","a","g","e">>
S_STALEX  == <<"S","T","A","L","E","X">>

RECURSIVE Join(_, _)
Join(toks, sep) ==
  IF Len(toks) = 0 THEN <<>>
  ELSE IF Len(toks) = 1 THEN toks[1]
  ELSE toks[1] \o <<sep>> \o Join(Tail(toks), sep)

Keywords == {K_PERMANENT, K_NOARP, K_REACHABLE, K_STALE, K_NONE, K_INCOMPLETE,
             K_DELAY, K_PROBE, K_FAILED}

\* First letter upper case, the rest lower case.
Capitalized(k) == [i \in 1..Len(k) |-> IF i = 1 THEN k[i] ELSE to_lowercase(k)[i]]

\* The lines of spec section 8 (scenarios 1 and 2) and of section 6.
LineScenario1 ==
  Join(<<S_ip4, S_dev, S_br_lan, S_used, S_0_0_0, S_probes, S_6, K_FAILED>>, " ")
LineScenario2 ==
  Join(<<S_ip6, S_dev, S_br_lan, S_lladdr, S_mac, S_used, S_0_0_0, S_probes, S_4,
         K_STALE>>, " ")
LineExample ==
  Join(<<S_ip4b, S_dev, S_br_lan, S_lladdr, S_mac2, S_ref, S_1, S_used, S_0_0_0,
         S_probes, S_1, K_REACHABLE>>, " ")

\* Number of tokens a generated line may have after the MAC address.
MaxTail == 2

Tok0 == {S_ip4, S_ip6, S_ip_bad}
Tok1 == {S_dev, S_Dev, S_dew}
Tok2 == {S_br_lan, S_Eth1}
Tok3 == {S_lladdr, S_LlAddr, S_used, <<>>}
Tok4 == {S_MAC}
TokMiddle == {S_ref, <<>>}
TokLast == Keywords
           \cup {to_lowercase(k) : k \in Keywords}
           \cup {Capitalized(k) : k \in Keywords}
           \cup {<<>>, S_STALEX, S_1}

\* The tokens position i of a line of n tokens is drawn from.
TokAt(i, n) ==
  CASE i = 1 -> Tok0
    [] i = 2 -> Tok1
    [] i = 3 -> Tok2
    [] i = 4 -> Tok3
    [] i = 5 -> Tok4
    [] i > 5 /\ i < n -> TokMiddle
    [] OTHER -> TokLast

\* The token lists of n tokens, from position i on.
RECURSIVE Lists(_, _)
Lists(i, n) ==
  IF i > n THEN {<<>>}
  ELSE {<<t>> \o rest : t \in TokAt(i, n), rest \in Lists(i + 1, n)}

TokenLists == UNION {Lists(1, n) : n \in 0..(5 + MaxTail)}

ParseInputs ==
  {Join(t, " ") : t \in TokenLists} \cup {LineScenario1, LineScenario2, LineExample}

\* Number of lines the command's standard output may have.
MaxLines == 3

RawGood4   == Join(<<S_ip4b, S_dev, S_br_lan, S_lladdr, S_mac2, S_ref, S_1,
                     K_REACHABLE>>, " ")
RawGood6   == <<" ", "\t">> \o LineScenario2 \o <<" ", "\r">>
RawNoMac   == LineScenario1
RawShort   == S_garbage
RawEmpty   == <<>>
RawBlank   == <<" ", "\t">>
RawBinary  == <<InvalidByte>>

RawLines == {RawGood4, RawGood6, RawNoMac, RawShort, RawEmpty, RawBlank, RawBinary}

RECURSIVE LineLists(_)
LineLists(n) ==
  IF n = 0 THEN {<<>>}
  ELSE {<<l>> \o rest : l \in RawLines, rest \in LineLists(n - 1)}

Stdouts == {Join(ls, "\n") : ls \in UNION {LineLists(n) : n \in 0..MaxLines}}

\* "Dump Terminated\n" and, with a letter outside ASCII, "\u00C9CHEC" as bytes.
Stderrs == {<<68, 117, 109, 112, 32, 84, 101, 114, 109, 105, 110, 97, 116, 101, 100, 10>>,
            <<195, 137, 67, 72, 69, 67>>}

OsErrors == {"No such file or directory (os error 2)",
             "Permission denied (os error 13)"}

ExitCodes == {0, 1}

\* What Command::new("ip").arg("neigh").output() can return.
CommandOutcomes ==
  {Err(e) : e \in OsErrors}
  \cup {Ok([status |-> c, stdout |-> o, stderr |-> e]) :
          c \in ExitCodes, o \in Stdouts, e \in Stderrs}

(***************************************************************************)
(* The logger (env_logger, log).                                           *)
(***************************************************************************)
LevelRank == [off |-> 0, error |-> 1, warn |-> 2, info |-> 3, debug |-> 4, trace |-> 5]

Enabled(level) == LevelRank[level] <= LevelRank[filter]

Emit(level, lines) == IF Enabled(level) THEN log \o lines ELSE log

DebugLines(msgs) == [i \in 1..Len(msgs) |-> [level |-> "debug", msg |-> msgs[i], arg |-> <<>>]]

(***************************************************************************)
(* main (main.rs:5-11) and get_ip_neighbors (mod.rs:167-199).              *)
(***************************************************************************)
Init ==
  /\ pc = "main"
  /\ rust_log \in {"", "error", "debug"}
  /\ filter = "off"
  /\ ip_neigh_cmd = Unset
  /\ stdout = <<>>
  /\ stdout_filtered = <<>>
  /\ next_line = 1
  /\ vec = <<>>
  /\ parsed = <<>>
  /\ result = Unset
  /\ ip_neigh_vec = Unset
  /\ log = <<>>
  /\ exit = "running"
  /\ s = <<>>
  /\ ret = Unset

\* main.rs:7
InitLogger ==
  /\ pc = "main"
  /\ filter' = IF rust_log = "" THEN "info" ELSE rust_log
  /\ pc' = "call"
  /\ UNCHANGED <<rust_log, ip_neigh_cmd, stdout, stdout_filtered, next_line, vec,
                 parsed, result, ip_neigh_vec, log, exit, s, ret>>

\* mod.rs:168
RunCommand ==
  /\ pc = "call"
  /\ \E o \in CommandOutcomes : ip_neigh_cmd' = o
  /\ pc' = "match"
  /\ UNCHANGED <<rust_log, filter, stdout, stdout_filtered, next_line, vec,
                 parsed, result, ip_neigh_vec, log, exit, s, ret>>

\* Mutant: a command that cannot be launched is taken for an empty table.
ExecFailed_swallow ==
  /\ pc = "match"
  /\ ~ip_neigh_cmd.ok
  /\ result' = Ok(<<>>)
  /\ pc' = "unwrap"
  /\ UNCHANGED <<rust_log, filter, ip_neigh_cmd, stdout, stdout_filtered, next_line,
                 vec, parsed, ip_neigh_vec, log, exit, s, ret>>

\* mod.rs:194-197
ExecFailed ==
  /\ pc = "match"
  /\ ~ip_neigh_cmd.ok
  /\ result' = Err(<<MSG_EXECUTE, ip_neigh_cmd.err>>)
  /\ pc' = "unwrap"
  /\ UNCHANGED <<rust_log, filter, ip_neigh_cmd, stdout, stdout_filtered, next_line,
                 vec, parsed, ip_neigh_vec, log, exit, s, ret>>

\* mod.rs:172-177
StatusFailed ==
  /\ pc = "match"
  /\ ip_neigh_cmd.ok
  /\ ip_neigh_cmd.val.status # 0
  /\ result' = Err(<<MSG_COMMAND, to_ascii_lowercase(ip_neigh_cmd.val.stderr)>>)
  /\ pc' = "unwrap"
  /\ UNCHANGED <<rust_log, filter, ip_neigh_cmd, stdout, stdout_filtered, next_line,
                 vec, parsed, ip_neigh_vec, log, exit, s, ret>>

\* mod.rs:179-180; expect() panics on bytes that are not UTF-8.
DecodeStdout ==
  /\ pc = "match"
  /\ ip_neigh_cmd.ok
  /\ ip_neigh_cmd.val.status = 0
  /\ LET decoded == from_utf8(ip_neigh_cmd.val.stdout)
     IN  IF decoded.ok
         THEN /\ stdout' = decoded.val
              /\ pc' = "filter"
              /\ exit' = exit
         ELSE /\ stdout' = stdout
              /\ pc' = "done"
              /\ exit' = "panic"
  /\ UNCHANGED <<rust_log, filter, ip_neigh_cmd, stdout_filtered, next_line, vec,
                 parsed, result, ip_neigh_vec, log, s, ret>>

\* Iterator::filter(|s| !s.is_empty()) over a sequence.
RECURSIVE filter_non_empty(_)
filter_non_empty(ls) ==
  IF Len(ls) = 0 THEN <<>>
  ELSE (IF Len(ls[1]) = 0 THEN <<>> ELSE <<ls[1]>>) \o filter_non_empty(Tail(ls))

\* Mutant: the first line is skipped as if it were a header.
filter_lines_skip_header(text) ==
  LET lines == Tail(split(text, "\n"))
  IN  filter_non_empty([i \in 1..Len(lines) |-> trim(lines[i])])

\* mod.rs:182-187
filter_lines(text) ==
  LET lines == split(text, "\n")
  IN  filter_non_empty([i \in 1..Len(lines) |-> trim(lines[i])])

FilterLines ==
  /\ pc = "filter"
  /\ stdout_filtered' = filter_lines(stdout)
  /\ next_line' = 1
  /\ pc' = "collect"
  /\ UNCHANGED <<rust_log, filter, ip_neigh_cmd, stdout, vec, parsed, result,
                 ip_neigh_vec, log, exit, s, ret>>

\* Mutant: a line that fails to parse is skipped (filter_map over the
\* results instead of collect into a Result).
ParseLine_best_effort ==
  /\ pc = "collect"
  /\ next_line <= Len(stdout_filtered)
  /\ LET v == stdout_filtered[next_line]
         r == parse_from_string(v)
     IN  /\ parsed' = Append(parsed, v)
         /\ log' = Emit("debug", DebugLines(parse_debug(v)))
         /\ vec' = IF r.ok THEN Append(vec, r.val) ELSE vec
         /\ next_line' = next_line + 1
  /\ UNCHANGED <<pc, rust_log, filter, ip_neigh_cmd, stdout, stdout_filtered,
                 result, ip_neigh_vec, exit, s, ret>>

\* mod.rs:189-192, one item of the iterator: collect() into a Result keeps
\* the Ok values and stops at the first Err, which it returns.
ParseLine ==
  /\ pc = "collect"
  /\ next_line <= Len(stdout_filtered)
  /\ LET v == stdout_filtered[next_line]
         r == parse_from_string(v)
     IN  /\ parsed' = Append(parsed, v)
         /\ log' = Emit("debug", DebugLines(parse_debug(v)))
         /\ IF r.ok
            THEN /\ vec' = Append(vec, r.val)
                 /\ next_line' = next_line + 1
                 /\ result' = result
                 /\ pc' = pc
            ELSE /\ vec' = <<>>
                 /\ next_line' = next_line
                 /\ result' = Err(r.err)
                 /\ pc' = "unwrap"
  /\ UNCHANGED <<rust_log, filter, ip_neigh_cmd, stdout, stdout_filtered,
                 ip_neigh_vec, exit, s, ret>>

\* mod.rs:189-192, the iterator is exhausted: collect() returns Ok.
CollectDone ==
  /\ pc = "collect"
  /\ next_line > Len(stdout_filtered)
  /\ result' = Ok(vec)
  /\ pc' = "unwrap"
  /\ UNCHANGED <<rust_log, filter, ip_neigh_cmd, stdout, stdout_filtered, next_line,
                 vec, parsed, ip_neigh_vec, log, exit, s, ret>>

\* Mutant: unwrap_or_default() instead of unwrap().
Unwrap_or_default ==
  /\ pc = "unwrap"
  /\ ip_neigh_vec' = IF result.ok THEN result.val ELSE <<>>
  /\ pc' = "info"
  /\ UNCHANGED <<rust_log, filter, ip_neigh_cmd, stdout, stdout_filtered, next_line,
                 vec, parsed, result, log, exit, s, ret>>

\* main.rs:9; unwrap() panics on Err.
Unwrap ==
  /\ pc = "unwrap"
  /\ IF result.ok
     THEN /\ ip_neigh_vec' = result.val
          /\ pc' = "info"
          /\ exit' = exit
     ELSE /\ ip_neigh_vec' = ip_neigh_vec
          /\ pc' = "done"
          /\ exit' = "panic"
  /\ UNCHANGED <<rust_log, filter, ip_neigh_cmd, stdout, stdout_filtered, next_line,
                 vec, parsed, result, log, s, ret>>

\* main.rs:10-11
LogInfo ==
  /\ pc = "info"
  /\ log' = Emit("info", <<[level |-> "info", msg |-> "them neighhhs -> ",
                            arg |-> ip_neigh_vec]>>)
  /\ pc' = "done"
  /\ exit' = "success"
  /\ UNCHANGED <<rust_log, filter, ip_neigh_cmd, stdout, stdout_filtered, next_line,
                 vec, parsed, result, ip_neigh_vec, s, ret>>

Next ==
  \/ InitLogger
  \/ RunCommand
  \/ ExecFailed
  \/ StatusFailed
  \/ DecodeStdout
  \/ FilterLines
  \/ ParseLine
  \/ CollectDone
  \/ Unwrap
  \/ LogInfo

Spec == Init /\ [][Next]_vars

(***************************************************************************)
(* Direct calls of ArpTable::parse_from_string (mod.rs:114-163), one per   *)
(* behaviour, on every line of ParseInputs.                                *)
(***************************************************************************)
InitParse ==
  /\ pc = "parse"
  /\ rust_log = ""
  /\ filter = "info"
  /\ ip_neigh_cmd = Unset
  /\ stdout = <<>>
  /\ stdout_filtered = <<>>
  /\ next_line = 1
  /\ vec = <<>>
  /\ parsed = <<>>
  /\ result = Unset
  /\ ip_neigh_vec = Unset
  /\ log = <<>>
  /\ exit = "running"
  /\ s \in ParseInputs
  /\ ret = Unset

ParseFromString ==
  /\ pc = "parse"
  /\ ret' = parse_from_string(s)
  /\ log' = Emit("debug", DebugLines(parse_debug(s)))
  /\ pc' = "returned"
  /\ UNCHANGED <<rust_log, filter, ip_neigh_cmd, stdout, stdout_filtered, next_line,
                 vec, parsed, result, ip_neigh_vec, exit, s>>

NextParse == ParseFromString

SpecParse == InitParse /\ [][NextParse]_vars

(***************************************************************************)
(* Vocabulary of the specification.                                        *)
(***************************************************************************)
\* The error kind the specification gives to each message of the source.
ErrorKind(e) ==
  CASE e[1] = MSG_EXECUTE -> "ExecutionError"
    [] e[1] = MSG_COMMAND -> "CommandError"
    [] e[1] \in {MSG_UNEXPECTED, MSG_ADDRESS, MSG_DEVICE, MSG_LLADDR} -> "FormatError"

Returned == result # Unset
Succeeded == Returned /\ result.ok
Failed == Returned /\ ~result.ok

Launched == ip_neigh_cmd # Unset /\ ip_neigh_cmd.ok
ExitedZero == Launched /\ ip_neigh_cmd.val.status = 0

\* The input lines that are not empty once trimmed, trimmed, in input order.
NonEmptyLines(text) ==
  LET lines == split(text, "\n")
      IsNonEmpty(l) == Len(l) > 0
  IN  SelectSeq([i \in 1..Len(lines) |-> trim(lines[i])], IsNonEmpty)

\* The positions of the lines that do not parse.
Malformed(lines) == {i \in 1..Len(lines) : ~parse_from_string(lines[i]).ok}

FirstMalformed(lines) ==
  CHOOSE i \in Malformed(lines) : \A j \in Malformed(lines) : i <= j

InfoLogged == \E i \in 1..Len(log) : log[i].level = "info"

\* Lower case of a byte of ASCII text.
LowerByte(b) == IF b >= 65 /\ b <= 90 THEN b + 32 ELSE b

(***************************************************************************)
(* Claims about get_ip_neighbors and main, checked under Spec.             *)
(***************************************************************************)

\* C1: when get_ip_neighbors succeeds, the records it returns are, in input
\* order, the parses of the lines of the command output that are not empty
\* after trimming: one record per such line, record i from the i-th line.
C1_OneRecordPerLine ==
  Succeeded =>
    LET lines == NonEmptyLines(ip_neigh_cmd.val.stdout)
    IN  /\ Len(result.val) = Len(lines)
        /\ \A i \in 1..Len(lines) :
             /\ parse_from_string(lines[i]).ok
             /\ result.val[i] = parse_from_string(lines[i]).val

\* Two different records returned in input order, blank lines discarded and
\* surrounding whitespace trimmed.
C1_Witness ==
  /\ exit = "success"
  /\ ExitedZero
  /\ ip_neigh_cmd.val.stdout = Join(<<RawGood6, RawBlank, RawGood4>>, "\n")
  /\ Len(ip_neigh_vec) = 2
  /\ ip_neigh_vec[1].nud_state = "STALE"
  /\ ip_neigh_vec[2].nud_state = "REACHABLE"

\* C2: if any line of the command output fails to parse, get_ip_neighbors
\* returns the parse error of the earliest such line and no record; the
\* lines handed to the parser are exactly those up to and including that
\* line, so no later line is parsed and no malformed line is skipped.
C2_FailFast ==
  (ExitedZero /\ pc \in {"collect", "unwrap", "info", "done"}) =>
    LET lines == NonEmptyLines(ip_neigh_cmd.val.stdout)
        bad   == Malformed(lines)
    IN  /\ \A i \in 1..Len(parsed) : i <= Len(lines) /\ parsed[i] = lines[i]
        /\ bad # {} => Len(parsed) <= FirstMalformed(lines)
        /\ (bad # {} /\ Returned) =>
             /\ result = Err(parse_from_string(lines[FirstMalformed(lines)]).err)
             /\ Len(parsed) = FirstMalformed(lines)
             /\ vec = <<>>
             /\ ip_neigh_vec = Unset
        /\ (bad # {} /\ pc = "done") => exit = "panic"

\* A well-formed line followed by two malformed lines with different errors:
\* the first error is returned and the third line was never parsed.
C2_Witness ==
  /\ pc = "done"
  /\ stdout_filtered = <<RawGood4, RawNoMac, RawShort>>
  /\ parsed = <<RawGood4, RawNoMac>>
  /\ Failed
  /\ result.err[1] = MSG_LLADDR
  /\ vec = <<>>

C4_InfoOnlyAfterSuccess ==
  /\ InfoLogged => (Succeeded /\ pc = "done" /\ exit = "success")
  /\ Failed => /\ ~InfoLogged
               /\ exit # "success"
               /\ \/ pc = "unwrap" /\ exit = "running" /\ ENABLED Unwrap
                  \/ pc = "done" /\ exit = "panic"
  /\ exit = "panic" => (pc = "done" /\ ~InfoLogged /\ ~Succeeded /\ ~ENABLED Next)

\* A run with informational logging enabled that ended in a panic after a
\* line failed to parse, with no informational line written.
C4_Witness ==
  /\ pc = "done"
  /\ exit = "panic"
  /\ filter = "debug"
  /\ Failed
  /\ ErrorKind(result.err) = "FormatError"
  /\ Len(parsed) = 2
  /\ Len(log) > 0
  /\ ~InfoLogged

\* C5: when the command cannot be launched, get_ip_neighbors fails with
\* ExecutionError carrying the description of the OS error; nothing is
\* decoded, no line is parsed and no record is produced.
C5_ExecutionError ==
  (ip_neigh_cmd # Unset /\ ~ip_neigh_cmd.ok) =>
    /\ parsed = <<>>
    /\ stdout = <<>>
    /\ stdout_filtered = <<>>
    /\ vec = <<>>
    /\ ip_neigh_vec = Unset
    /\ pc \in {"match", "unwrap", "done"}
    /\ pc # "match" =>
         /\ Failed
         /\ ErrorKind(result.err) = "ExecutionError"
         /\ result.err[2] = ip_neigh_cmd.err
         /\ result.err[2] \in OsErrors

\* The launch failed with "Permission denied" and main has panicked.
C5_Witness ==
  /\ pc = "done"
  /\ exit = "panic"
  /\ ip_neigh_cmd # Unset
  /\ ~ip_neigh_cmd.ok
  /\ Failed
  /\ result.err = <<MSG_EXECUTE, "Permission denied (os error 13)">>

(***************************************************************************)
(* Claims about parse_from_string (parseLine), checked under SpecParse.    *)
(***************************************************************************)
\* The number of tokens of a line: one more than its space characters.
NumTokens(line) == Cardinality({i \in 1..Len(line) : line[i] = " "}) + 1

\* Token i of the line, counted from 0 as in the specification.
Token(line, i) == split(line, " ")[i + 1]

LastToken(line) == split(line, " ")[NumTokens(line)]

SameLetter(c, d) ==
  \/ c = d
  \/ \E k \in 1..Len(LowerChars) : {c, d} = {LowerChars[k], UpperChars[k]}

\* Equality of two strings up to letter case.
EqIgnoreCase(a, b) ==
  Len(a) = Len(b) /\ \A i \in 1..Len(a) : SameLetter(a[i], b[i])

IsLowerCase(a) == \A i \in 1..Len(a) : ~InSeq(a[i], UpperChars)

\* The state each of the nine keywords stands for.
KeywordState ==
  {<<K_PERMANENT, "PERMANENT">>, <<K_NOARP, "NOARP">>, <<K_REACHABLE, "REACHABLE">>,
   <<K_STALE, "STALE">>, <<K_NONE, "NONE">>, <<K_INCOMPLETE, "INCOMPLETE">>,
   <<K_DELAY, "DELAY">>, <<K_PROBE, "PROBE">>, <<K_FAILED, "FAILED">>}

ExpectedState(tok) ==
  IF \E ks \in KeywordState : EqIgnoreCase(tok, ks[1])
  THEN (CHOOSE ks \in KeywordState : EqIgnoreCase(tok, ks[1]))[2]
  ELSE "UNKNOWN"

\* The line with its final token replaced by tok.
WithLastToken(line, tok) ==
  LET toks == split(line, " ")
  IN  Join(SubSeq(toks, 1, Len(toks) - 1) \o <<tok>>, " ")

\* The line without the tokens between the MAC address and the final token.
WithoutMiddle(line) ==
  LET toks == split(line, " ")
  IN  Join(SubSeq(toks, 1, 5) \o <<toks[Len(toks)]>>, " ")

HasAddress(line) == IpAddr_from_str(Token(line, 0)).ok
HasDev(line)     == EqIgnoreCase(Token(line, 1), S_dev)
HasLladdr(line)  == EqIgnoreCase(Token(line, 3), S_lladdr)

CallReturned == pc = "returned"

\* C6: the state of a parsed record is the one its final token names, in
\* any letter case, and UNKNOWN for every other final token (the empty
\* token included); whether the line parses does not depend on the final
\* token: it parses exactly when it does with an empty or an unrecognised
\* final token in its place.
C6_StateKeyword ==
  CallReturned =>
    /\ ret.ok => ret.val.nud_state = ExpectedState(LastToken(s))
    /\ parse_from_string(WithLastToken(s, <<>>)).ok = ret.ok
    /\ parse_from_string(WithLastToken(s, S_STALEX)).ok = ret.ok

\* A keyword written in mixed case is recognised.
C6_Witness ==
  /\ CallReturned
  /\ ret.ok
  /\ LastToken(s) = Capitalized(K_INCOMPLETE)
  /\ ret.val.nud_state = "INCOMPLETE"

\* C7: a line of fewer than 6 tokens, empty tokens counted, fails with
\* FormatError "Unexpected string"; a line of 6 or more tokens never does.
C7_LengthCheck ==
  CallReturned =>
    /\ NumTokens(s) < 6 =>
         /\ ~ret.ok
         /\ ErrorKind(ret.err) = "FormatError"
         /\ ret.err = <<MSG_UNEXPECTED, s>>
    /\ NumTokens(s) >= 6 => (ret.ok \/ ret.err[1] # MSG_UNEXPECTED)

\* Five well-formed tokens, one short of a record, are rejected.
C7_Witness ==
  /\ CallReturned
  /\ NumTokens(s) = 5
  /\ HasAddress(s) /\ HasDev(s) /\ HasLladdr(s)
  /\ ~ret.ok
  /\ ret.err[1] = MSG_UNEXPECTED

\* C8: a line whose token 1 is not `dev`, or whose token 3 is not `lladdr`,
\* up to letter case, fails with FormatError whatever its other fields
\* are; so does the entry without link-layer address of scenario 1.
C8_KeywordChecks ==
  CallReturned =>
    /\ (NumTokens(s) >= 2 /\ ~HasDev(s)) =>
         (~ret.ok /\ ErrorKind(ret.err) = "FormatError")
    /\ (NumTokens(s) >= 4 /\ ~HasLladdr(s)) =>
         (~ret.ok /\ ErrorKind(ret.err) = "FormatError")
    /\ s = LineScenario1 =>
         (~ret.ok /\ ErrorKind(ret.err) = "FormatError")

\* The entry of scenario 1 is rejected for its missing `lladdr`.
C8_Witness ==
  /\ CallReturned
  /\ s = LineScenario1
  /\ ~ret.ok
  /\ ret.err = <<MSG_LLADDR, S_used>>

\* C9: a parsed record has the parse of token 0 as ip, token 2 as written
\* as interface, token 4 in lower case as MAC address and the state of the
\* final token; the tokens between token 4 and the final one do not count,
\* and the line of scenario 2 gives the record the specification states.
C9_PositionalRecord ==
  (CallReturned /\ ret.ok) =>
    /\ ret.val.ip = IpAddr_from_str(Token(s, 0)).val
    /\ ret.val.iface = Token(s, 2)
    /\ EqIgnoreCase(ret.val.mac_addr, Token(s, 4))
    /\ IsLowerCase(ret.val.mac_addr)
    /\ ret.val.nud_state = parse_nud_from_str(LastToken(s))
    /\ parse_from_string(WithoutMiddle(s)) = ret
    /\ s = LineScenario2 =>
         ret.val = [ip        |-> [v |-> "V6",
                                   addr |-> <<65152, 0, 0, 0, 6246, 19663, 5134, 38320>>],
                    iface     |-> S_br_lan,
                    mac_addr  |-> S_mac,
                    nud_state |-> "STALE"]

\* A record parsed from a line with an upper-case MAC address, a mixed-case
\* interface name and a token between the MAC address and the state.
C9_Witness ==
  /\ CallReturned
  /\ ret.ok
  /\ NumTokens(s) = 7
  /\ Token(s, 2) = S_Eth1
  /\ Token(s, 4) = S_MAC
  /\ Token(s, 5) = S_ref
  /\ ret.val.iface = S_Eth1
  /\ ret.val.mac_addr = S_mac
  /\ ret.val.nud_state = "PROBE"

\* C10: the checks run in the order token count, address, `dev`, `lladdr`;
\* the error is that of the first check that fails, and the line parses
\* exactly when all four pass.
C10_CheckOrder ==
  CallReturned =>
    LET enough == NumTokens(s) >= 6
    IN  /\ ret.ok <=> (enough /\ HasAddress(s) /\ HasDev(s) /\ HasLladdr(s))
        /\ ~enough => (~ret.ok /\ ret.err[1] = MSG_UNEXPECTED)
        /\ (enough /\ ~HasAddress(s)) => (~ret.ok /\ ret.err[1] = MSG_ADDRESS)
        /\ (enough /\ HasAddress(s) /\ ~HasDev(s)) =>
             (~ret.ok /\ ret.err[1] = MSG_DEVICE)
        /\ (enough /\ HasAddress(s) /\ HasDev(s) /\ ~HasLladdr(s)) =>
             (~ret.ok /\ ret.err[1] = MSG_LLADDR)

\* A line of 6 tokens with a bad address, a bad `dev` and a bad `lladdr`
\* reports the address.
C10_Witness ==
  /\ CallReturned
  /\ NumTokens(s) >= 6
  /\ ~HasAddress(s) /\ ~HasDev(s) /\ ~HasLladdr(s)
  /\ ~ret.ok
  /\ ret.err[1] = MSG_ADDRESS

====
